---- MODULE Spec2Model ----
(***************************************************************************)
(* Model of the BearLink preview service (src/preview-service).            *)
(*                                                                         *)
(*   - services/scraper.py : fetch_preview and the metadata extractors     *)
(*   - main.py             : _is_valid_url, GET /preview, the RabbitMQ job *)
(*                           consumer and the lifespan that owns its task  *)
(*                                                                         *)
(* Python strings are sequences of one-character strings, so that parsing, *)
(* trimming, prefix tests and concatenation are computed, not assumed.     *)
(* An Optional[str] is a record [none, v]: None is [none |-> TRUE].        *)
(***************************************************************************)
EXTENDS Integers, Sequences, FiniteSets, TLC

VARIABLES
    \* ---- GET /preview (main.py 98-108) ----
    req_url,    \* the url query parameter of the request
    web_outcome,\* what requests.get does for this request
    web_page,   \* the markup the remote server answers with, as parsed
    http_pc,    \* "received" | "responded"
    resp,       \* the HTTP response of get_preview
    fetched,    \* TRUE once fetch_preview was called for the request
    \* ---- the job consumer task and its owner (main.py 22-77) ----
    pc,              \* where consume_preview_jobs is suspended
    conn,            \* its connection: "none" | "open" | "lost" | "closed"
    timer,           \* seconds slept in asyncio.sleep(retry_interval)
    cur,             \* the message inside message.process(), 0 if none
    job,             \* url_id and original_url read from its body
    meta_result,     \* meta, what fetch_preview returned
    fetch_outcome,   \* whether requests.get succeeded in that call: "none" | "ok" | "failed"
    last_log,        \* the last record the consumer logged
    cancel_requested,\* task.cancel() was called and not yet delivered
    lifespan_pc,     \* "running" | "cancelling" | "exited"
    \* ---- the broker ----
    broker_up,       \* the broker is reachable
    failures,        \* how often it became unreachable
    bodies,          \* the body of every job message published, by id
    msg_state,       \* per job message: "ready" | "unacked" | "acked" | "dropped"
    jobs_queue,      \* preview_jobs: the ids ready for delivery
    results_queue,   \* preview_results
    deliveries       \* deliveries made to the consumer so far

http_vars == <<req_url, web_outcome, web_page, http_pc, resp, fetched>>

task_vars == <<pc, conn, timer, cur, job, meta_result, fetch_outcome, last_log,
               cancel_requested, lifespan_pc>>

broker_vars == <<broker_up, failures, bodies, msg_state, jobs_queue,
                 results_queue, deliveries>>

vars == <<http_vars, task_vars, broker_vars>>

(***************************************************************************)
(* Bounds of the model.                                                    *)
(***************************************************************************)
\* Number of elements of a parsed page.
MaxTags == 2

\* Number of job messages published to preview_jobs.
MaxJobs == 2

\* The same, in the behaviours checked for liveness.
MaxLiveJobs == 1

\* Number of times the broker becomes unreachable.
MaxFailures == 1

(***************************************************************************)
(* Strings.                                                                *)
(***************************************************************************)
LowerCase ==
    <<"a","b","c","d","e","f","g","h","i","j","k","l","m",
      "n","o","p","q","r","s","t","u","v","w","x","y","z">>

UpperCase ==
    <<"A","B","C","D","E","F","G","H","I","J","K","L","M",
      "N","O","P","Q","R","S","T","U","V","W","X","Y","Z">>

Digits == {"0","1","2","3","4","5","6","7","8","9"}

Range(s) == { s[i] : i \in 1..Len(s) }

AsciiLetters == Range(LowerCase) \cup Range(UpperCase)

\* str.lower() on one character
LowerChar(c) ==
    IF c \in Range(UpperCase)
    THEN LowerCase[CHOOSE i \in 1..26 : UpperCase[i] = c]
    ELSE c

\* str.lower()
Lower(s) == [ i \in 1..Len(s) |-> LowerChar(s[i]) ]

\* str.find(c, from): the first index >= from holding a character of cs, 0 if none
FindAny(s, cs, from) ==
    IF \E i \in from..Len(s) : s[i] \in cs
    THEN CHOOSE i \in from..Len(s) :
            s[i] \in cs /\ \A j \in from..(i-1) : s[j] \notin cs
    ELSE 0

\* the last index holding c, 0 if none (str.rpartition)
RFind(s, c) ==
    IF \E i \in 1..Len(s) : s[i] = c
    THEN CHOOSE i \in 1..Len(s) : s[i] = c /\ \A j \in (i+1)..Len(s) : s[j] # c
    ELSE 0

\* str.startswith
StartsWith(s, prefix) ==
    Len(s) >= Len(prefix) /\ SubSeq(s, 1, Len(prefix)) = prefix

\* `sub in s` for strings
Contains(s, sub) ==
    \E i \in 1..(Len(s) - Len(sub) + 1) : SubSeq(s, i, i + Len(sub) - 1) = sub

Whitespace == {" ", "\n", "\t"}

RECURSIVE LStrip(_)
LStrip(s) == IF s # <<>> /\ Head(s) \in Whitespace THEN LStrip(Tail(s)) ELSE s

RECURSIVE RStrip(_)
RStrip(s) ==
    IF s # <<>> /\ s[Len(s)] \in Whitespace
    THEN RStrip(SubSeq(s, 1, Len(s) - 1))
    ELSE s

\* str.strip()
Strip(s) == RStrip(LStrip(s))

\* Optional[str]
None == [none |-> TRUE, v |-> <<>>]

Str(s) == [none |-> FALSE, v |-> s]

\* Python truthiness of an Optional[str]
Truthy(o) == ~o.none /\ o.v # <<>>

\* Python's `a or b`
Or(a, b) == IF Truthy(a) THEN a ELSE b

\* string literals of the program
http == <<"h","t","t","p">>

https == <<"h","t","t","p","s">>

icon == <<"i","c","o","n">>

ColonSlashSlash == <<":","/","/">>

Slash == <<"/">>

FaviconIco == <<"/","f","a","v","i","c","o","n",".","i","c","o">>

(***************************************************************************)
(* urllib.parse.urlparse, as far as main.py and scraper.py read its result *)
(* (scheme, netloc, and whether it raises ValueError).                     *)
(***************************************************************************)
SchemeChars == AsciiLetters \cup Digits \cup {"+", "-", "."}

urlparse(u) ==
    LET i         == FindAny(u, {":"}, 1)
        hasScheme == /\ i > 1
                     /\ u[1] \in AsciiLetters
                     /\ \A k \in 1..(i-1) : u[k] \in SchemeChars
        scheme    == IF hasScheme THEN Lower(SubSeq(u, 1, i-1)) ELSE <<>>
        rest      == IF hasScheme THEN SubSeq(u, i+1, Len(u)) ELSE u
        hasNetloc == StartsWith(rest, <<"/","/">>)
        d         == FindAny(rest, {"/", "?", "#"}, 3)
        delim     == IF d = 0 THEN Len(rest) + 1 ELSE d
        netloc    == IF hasNetloc THEN SubSeq(rest, 3, delim - 1) ELSE <<>>
        \* "Invalid IPv6 URL": one bracket without the other
        raised    == ("[" \in Range(netloc)) # ("]" \in Range(netloc))
    IN  [raised |-> raised, scheme |-> scheme, netloc |-> netloc]

\* the host of an authority: what follows the userinfo, up to the port
Hostname(netloc) ==
    LET at       == RFind(netloc, "@")
        hostinfo == SubSeq(netloc, at + 1, Len(netloc))
        open     == FindAny(hostinfo, {"["}, 1)
        close    == FindAny(hostinfo, {"]"}, 1)
        colon    == FindAny(hostinfo, {":"}, 1)
    IN  IF open # 0
        THEN SubSeq(hostinfo, open + 1, (IF close = 0 THEN Len(hostinfo) + 1 ELSE close) - 1)
        ELSE SubSeq(hostinfo, 1, (IF colon = 0 THEN Len(hostinfo) + 1 ELSE colon) - 1)

(***************************************************************************)
(* main.py: _is_valid_url                                                  *)
(***************************************************************************)
is_valid_url(u) ==
    LET result == urlparse(u)
    IN  IF result.raised
        THEN FALSE
        ELSE result.scheme \in {http, https} /\ result.netloc # <<>>

(***************************************************************************)
(* requests.get(url, ...) followed by raise_for_status(): the outcomes the *)
(* try block of fetch_preview can see.  requests itself refuses a URL      *)
(* without an http(s) scheme or without a host (MissingSchema,             *)
(* InvalidSchema, InvalidURL), all of them exceptions.                     *)
(***************************************************************************)
Usable(u) ==
    LET result == urlparse(u)
    IN  /\ ~result.raised
        /\ result.scheme \in {http, https}
        /\ Hostname(result.netloc) # <<>>

FetchFailures == {"connection_error", "timeout", "http_error"}

RequestOutcomes(u) ==
    IF Usable(u) THEN {"ok"} \cup FetchFailures ELSE {"invalid_url"}

(***************************************************************************)
(* A parsed page (BeautifulSoup): its elements in document order.  An      *)
(* element carries the attributes the extractors read; an attribute that   *)
(* is not there is "" (property, name), <<>> (rel) or None (content, href, *)
(* string).  rel is multi-valued: a sequence of tokens.                    *)
(***************************************************************************)
Meta(property, name, content) ==
    [tag |-> "meta", property |-> property, name |-> name, content |-> content,
     rel |-> <<>>, href |-> None, string |-> None]

Link(rel, href) ==
    [tag |-> "link", property |-> "", name |-> "", content |-> None,
     rel |-> rel, href |-> href, string |-> None]

Title(string) ==
    [tag |-> "title", property |-> "", name |-> "", content |-> None,
     rel |-> <<>>, href |-> None, string |-> string]

\* soup.find(...): the index of the first of the matching elements, 0 if none
Find(matching) ==
    IF matching = {}
    THEN 0
    ELSE CHOOSE i \in matching : \A j \in matching : i <= j

(***************************************************************************)
(* services/scraper.py: the extractors                                     *)
(***************************************************************************)
meta(soup, attr, value) ==
    LET i == Find({ k \in 1..Len(soup) : soup[k].tag = "meta" /\ soup[k][attr] = value })
    IN  IF i # 0 THEN Or(soup[i].content, None) ELSE None

\* soup.title.string.strip() if soup.title and soup.title.string else None
title_string(soup) ==
    LET i == Find({ k \in 1..Len(soup) : soup[k].tag = "title" })
    IN  IF i # 0 /\ Truthy(soup[i].string)
        THEN Str(Strip(soup[i].string.v))
        ELSE None

get_title(soup) ==
    Or(Or(meta(soup, "property", "og:title"),
          meta(soup, "name", "twitter:title")),
       title_string(soup))

get_description(soup) ==
    Or(Or(meta(soup, "property", "og:description"),
          meta(soup, "name", "twitter:description")),
       meta(soup, "name", "description"))

get_image(soup) ==
    Or(meta(soup, "property", "og:image"), meta(soup, "name", "twitter:image"))

\* rel=lambda r: r and "icon" in r, applied to each token of rel
RelMatches(e) == \E k \in 1..Len(e.rel) : Contains(e.rel[k], icon)

icon_link(soup) ==
    Find({ k \in 1..Len(soup) : soup[k].tag = "link" /\ RelMatches(soup[k]) })

\* f"{parsed.scheme}://{parsed.netloc}"
base_of(u) == LET parsed == urlparse(u) IN parsed.scheme \o ColonSlashSlash \o parsed.netloc

\* a variant that joins base and a relative href without inserting the slash
get_favicon_no_slash(soup, u) ==
    LET i == icon_link(soup)
    IN  IF i # 0 /\ Truthy(soup[i].href)
        THEN LET href == soup[i].href.v
             IN  IF StartsWith(href, http) THEN Str(href) ELSE Str(base_of(u) \o href)
        ELSE Str(base_of(u) \o FaviconIco)

get_favicon(soup, u) ==
    LET i == icon_link(soup)
    IN  IF i # 0 /\ Truthy(soup[i].href)
        THEN LET href == soup[i].href.v
             IN  IF StartsWith(href, http)
                 THEN Str(href)
                 ELSE Str(base_of(u) \o (IF StartsWith(href, Slash) THEN href ELSE Slash \o href))
        ELSE Str(base_of(u) \o FaviconIco)

\* _get_favicon raises what its urlparse(url) raises, when it gets that far
get_favicon_raises(soup, u) ==
    LET i == icon_link(soup)
    IN  /\ ~(i # 0 /\ Truthy(soup[i].href) /\ StartsWith(soup[i].href.v, http))
        /\ urlparse(u).raised

(***************************************************************************)
(* services/scraper.py: fetch_preview.  out is what requests.get and       *)
(* raise_for_status did, pg what BeautifulSoup made of response.text.      *)
(* The result carries the four fields and whether an exception left the    *)
(* function instead.                                                       *)
(***************************************************************************)
AllNone ==
    [raised |-> FALSE, title |-> None, description |-> None,
     image |-> None, favicon |-> None]

\* a variant whose failure result still carries the default favicon
fetch_preview_default_favicon(u, out, pg) ==
    IF out # "ok" \/ pg.parse_error
    THEN [AllNone EXCEPT !.favicon = Str(base_of(u) \o FaviconIco)]
    ELSE [raised      |-> get_favicon_raises(pg.soup, u),
          title       |-> get_title(pg.soup),
          description |-> get_description(pg.soup),
          image       |-> get_image(pg.soup),
          favicon     |-> get_favicon(pg.soup, u)]

fetch_preview(u, out, pg) ==
    IF out # "ok"
    THEN AllNone
    ELSE IF pg.parse_error
         THEN AllNone
         ELSE [raised      |-> get_favicon_raises(pg.soup, u),
               title       |-> get_title(pg.soup),
               description |-> get_description(pg.soup),
               image       |-> get_image(pg.soup),
               favicon     |-> get_favicon(pg.soup, u)]

(***************************************************************************)
(* main.py: GET /preview.  One request per behaviour: Init draws the url   *)
(* parameter and what the remote server does, get_preview is the handler.  *)
(***************************************************************************)
InvalidUrlDetail == "Invalid URL. Must be a valid HTTP or HTTPS URL."

NoResponse ==
    [status |-> 0, detail |-> "", url |-> <<>>, title |-> None,
     description |-> None, image |-> None, favicon |-> None,
     fetched_at |-> FALSE]

get_preview ==
    /\ http_pc = "received"
    /\ http_pc' = "responded"
    /\ IF ~is_valid_url(req_url)
       THEN /\ resp' = [NoResponse EXCEPT !.status = 400, !.detail = InvalidUrlDetail]
            /\ fetched' = FALSE
       ELSE LET m == fetch_preview(req_url, web_outcome, web_page)
            IN  /\ fetched' = TRUE
                /\ resp' = IF m.raised
                           THEN [NoResponse EXCEPT !.status = 500]
                           ELSE [status      |-> 200,
                                 detail      |-> "",
                                 url         |-> req_url,
                                 title       |-> m.title,
                                 description |-> m.description,
                                 image       |-> m.image,
                                 favicon     |-> m.favicon,
                                 fetched_at  |-> TRUE]
    /\ UNCHANGED <<req_url, web_outcome, web_page>>

(***************************************************************************)
(* The inputs the model draws from.                                        *)
(***************************************************************************)
SchemeSamples ==
    { <<>>, http, https, <<"H","T","T","P">>, <<"f","t","p">> }

SeparatorSamples ==
    { <<>>, <<":">>, <<":","/">>, ColonSlashSlash, <<"/","/">> }

AuthoritySamples ==
    { <<>>,
      <<"a",".","i","o">>,
      <<":","8","0">>,
      <<"u","@","a",".","i","o",":","8","0">>,
      <<"[",":",":","1">> }

PathSamples == { <<>>, <<"/","p">> }

UrlSamples ==
    { s \o sep \o a \o p : s \in SchemeSamples, sep \in SeparatorSamples,
                           a \in AuthoritySamples, p \in PathSamples }

ElementSamples ==
    { Meta("og:title", "", Str(<<"O">>)),
      Meta("og:title", "", Str(<<>>)),
      Meta("", "og:title", Str(<<"X">>)),
      Meta("", "twitter:title", Str(<<"T">>)),
      Title(Str(<<" ","H"," ">>)),
      Title(Str(<<" ">>)),
      Title(None),
      Meta("og:description", "", Str(<<"D">>)),
      Meta("", "twitter:description", None),
      Meta("", "description", Str(<<"d">>)),
      Meta("og:image", "", Str(<<"I">>)),
      Meta("", "twitter:image", Str(<<"J">>)),
      Link(<<icon>>, Str(<<"/","f">>)),
      Link(<< <<"s","h","o","r","t","c","u","t">>, icon >>, Str(<<"f">>)),
      Link(<< <<"m","a","s","k","-","i","c","o","n">> >>, Str(<<"h","t","t","p",":","/","/","c","/","i">>)),
      Link(<< <<"s","t","y","l","e","s","h","e","e","t">> >>, Str(<<"/","s">>)),
      Link(<<icon>>, None) }

SeqsUpTo(S, n) == UNION { [1..k -> S] : k \in 0..n }

Parsed(soup) == [parse_error |-> FALSE, soup |-> soup]

\* BeautifulSoup(response.text, "html.parser") raised
Unparsable == [parse_error |-> TRUE, soup |-> <<>>]

PageSamples == { Parsed(soup) : soup \in SeqsUpTo(ElementSamples, MaxTags) } \cup {Unparsable}

(***************************************************************************)
(* The job messages and the web the consumer fetches from.                 *)
(***************************************************************************)
Body(valid_json, has_urlId, urlId, has_originalUrl, originalUrl) ==
    [valid_json |-> valid_json, has_urlId |-> has_urlId, urlId |-> urlId,
     has_originalUrl |-> has_originalUrl, originalUrl |-> originalUrl]

UsableJobUrl == http \o ColonSlashSlash \o <<"a",".","i","o">>

UnusableJobUrl == <<"a",".","i","o">>

BodySamples ==
    { Body(TRUE, TRUE, "abc", TRUE, UsableJobUrl),
      Body(TRUE, TRUE, "xyz", TRUE, UnusableJobUrl),
      Body(FALSE, FALSE, "", FALSE, <<>>),
      Body(TRUE, FALSE, "", TRUE, UsableJobUrl),
      Body(TRUE, TRUE, "abc", FALSE, <<>>) }

JobPageSamples ==
    { Parsed(<< Meta("og:title", "", Str(<<"O">>)), Link(<<icon>>, Str(<<"/","f">>)) >>),
      Unparsable }

\* What run_in_executor(None, fetch_preview, u) can return for the URL of a
\* job, with whether requests.get had succeeded: one entry per thing the web
\* can do.
JobFetches ==
    [ u \in {UsableJobUrl, UnusableJobUrl} |->
        { [meta |-> fetch_preview(u, out, pg),
           fetch |-> IF out = "ok" THEN "ok" ELSE "failed"] :
             out \in RequestOutcomes(u), pg \in JobPageSamples } ]

\* json.loads(message.body), data["urlId"], data["originalUrl"] (main.py 37-39)
parse_job(body) ==
    IF body.valid_json /\ body.has_urlId /\ body.has_originalUrl
    THEN [raised |-> FALSE, url_id |-> body.urlId, original_url |-> body.originalUrl]
    ELSE [raised |-> TRUE, url_id |-> "", original_url |-> <<>>]

NoJob == [url_id |-> "", original_url |-> <<>>]

\* the result dict and the message that carries it (main.py 45-59).  The
\* fields delivery, msg and fetch record what the message was published for:
\* the delivery, the job message and what requests.get had done.
result_message(url_id, m, delivery, msg, fetch) ==
    [urlId |-> url_id, title |-> m.title, description |-> m.description,
     image |-> m.image, favicon |-> m.favicon, fetchedAt |-> TRUE,
     persistent |-> TRUE, routing_key |-> "preview_results",
     delivery |-> delivery, msg |-> msg, fetch |-> fetch]

(***************************************************************************)
(* main.py 36: async with message.process(), called with its defaults      *)
(* (requeue=False).  Leaving it normally acknowledges the message; leaving *)
(* it with an exception, CancelledError included, rejects the message      *)
(* without requeue when the channel is open and sends nothing when not.    *)
(***************************************************************************)
process_exit(exc, channel_open) ==
    IF exc = "none" THEN "ack"
    ELSE IF channel_open THEN "reject"
    ELSE "nothing"

(***************************************************************************)
(* main.py 62-66: the except clauses of the loop                           *)
(***************************************************************************)
on_exception_swallow(exc) == "retry"

on_exception(exc) == IF exc = "CancelledError" THEN "raise" ELSE "retry"

RetryInterval == 2

\* The broker requeues an unacknowledged message at the head of its queue.
Requeued(states, queue, m) ==
    IF m # 0 /\ states[m] = "unacked"
    THEN [st |-> [states EXCEPT ![m] = "ready"], q |-> <<m>> \o queue]
    ELSE [st |-> states, q |-> queue]

(***************************************************************************)
(* An exception exc leaves the try body of consume_preview_jobs: the       *)
(* context managers exit innermost first (message.process(), the queue     *)
(* iterator, the connection), then the except clauses decide.              *)
(***************************************************************************)
raise(exc) ==
    LET verdict  == IF cur # 0 /\ pc # "acking"
                    THEN process_exit(exc, conn = "open")
                    ELSE "nothing"
        rejected == IF verdict = "reject" /\ msg_state[cur] = "unacked"
                    THEN [msg_state EXCEPT ![cur] = "dropped"]
                    ELSE msg_state
        \* async with connection: closing it returns what is still unacked
        closed   == Requeued(rejected, jobs_queue, cur)
    IN  /\ msg_state' = closed.st
        /\ jobs_queue' = closed.q
        /\ conn' = IF conn = "none" THEN "none" ELSE "closed"
        /\ cur' = 0
        /\ job' = NoJob
        /\ meta_result' = AllNone
        /\ fetch_outcome' = "none"
        /\ timer' = 0
        /\ IF on_exception(exc) = "raise"
           THEN /\ pc' = "terminated"
                /\ UNCHANGED last_log
           ELSE /\ pc' = "sleeping"
                /\ last_log' = "warning: RabbitMQ consumer error, retrying"
        /\ cancel_requested' = FALSE
        /\ UNCHANGED <<lifespan_pc, broker_up, failures, bodies, results_queue, deliveries, http_vars>>

(***************************************************************************)
(* main.py 22-66: consume_preview_jobs, one action per await it can be     *)
(* suspended in.  A step runs from one await to the next.                  *)
(***************************************************************************)
ConsumerIdle == <<cur, job, meta_result, fetch_outcome>>

\* the task starts: while True, try, await connect_robust (24-26)
task_start ==
    /\ pc = "created" /\ ~cancel_requested
    /\ pc' = "connecting"
    /\ UNCHANGED <<conn, timer, ConsumerIdle, last_log, cancel_requested,
                   lifespan_pc, broker_vars, http_vars>>

\* connect_robust returned a connection; async with connection (26-27)
connect_ok ==
    /\ pc = "connecting" /\ ~cancel_requested /\ broker_up
    /\ pc' = "declaring"
    /\ conn' = "open"
    /\ UNCHANGED <<timer, ConsumerIdle, last_log, cancel_requested,
                   lifespan_pc, broker_vars, http_vars>>

\* connect_robust raised (26)
connect_error ==
    /\ pc = "connecting" /\ ~cancel_requested /\ ~broker_up
    /\ raise("Exception")

\* channel(), declare_queue twice, logger.info, the iterator opens (28-35)
declare_ok ==
    /\ pc = "declaring" /\ ~cancel_requested /\ conn = "open"
    /\ pc' = "waiting"
    /\ last_log' = "info: Connected to RabbitMQ, consuming preview jobs"
    /\ UNCHANGED <<conn, timer, ConsumerIdle, cancel_requested,
                   lifespan_pc, broker_vars, http_vars>>

\* the connection was lost under channel() or declare_queue (28-30)
declare_error ==
    /\ pc = "declaring" /\ ~cancel_requested /\ conn = "lost"
    /\ raise("Exception")

\* async for message in queue_iter: the next message arrives; the body of
\* the loop runs up to its first await, run_in_executor (35-43)
next_message_skip_on_error ==
    /\ pc = "waiting" /\ ~cancel_requested /\ conn = "open"
    /\ jobs_queue # <<>>
    /\ LET m      == Head(jobs_queue)
           parsed == parse_job(bodies[m])
       IN  /\ deliveries' = deliveries + 1
           /\ jobs_queue' = Tail(jobs_queue)
           /\ IF parsed.raised
              THEN /\ msg_state' = [msg_state EXCEPT ![m] = "dropped"]
                   /\ UNCHANGED <<pc, cur, job>>
              ELSE /\ msg_state' = [msg_state EXCEPT ![m] = "unacked"]
                   /\ cur' = m
                   /\ job' = [url_id |-> parsed.url_id, original_url |-> parsed.original_url]
                   /\ pc' = "fetching"
           /\ UNCHANGED <<conn, timer, meta_result, fetch_outcome, last_log, cancel_requested,
                          lifespan_pc, broker_up, failures, bodies, results_queue, http_vars>>

next_message_while_busy ==
    /\ pc \in {"waiting", "fetching"} /\ ~cancel_requested /\ conn = "open"
    /\ jobs_queue # <<>>
    /\ LET m      == Head(jobs_queue)
           parsed == parse_job(bodies[m])
       IN  /\ ~parsed.raised
           /\ deliveries' = deliveries + 1
           /\ jobs_queue' = Tail(jobs_queue)
           /\ msg_state' = [msg_state EXCEPT ![m] = "unacked"]
           /\ cur' = m
           /\ job' = [url_id |-> parsed.url_id, original_url |-> parsed.original_url]
           /\ pc' = "fetching"
           /\ UNCHANGED <<conn, timer, meta_result, fetch_outcome, last_log, cancel_requested,
                          lifespan_pc, broker_up, failures, bodies, results_queue, http_vars>>

next_message ==
    /\ pc = "waiting" /\ ~cancel_requested /\ conn = "open"
    /\ jobs_queue # <<>>
    /\ LET m      == Head(jobs_queue)
           parsed == parse_job(bodies[m])
       IN  IF parsed.raised
           THEN \* json.loads or data[...] raised inside message.process()
                /\ deliveries' = deliveries + 1
                /\ LET verdict  == process_exit("Exception", TRUE)
                       delivered == [msg_state EXCEPT ![m] = "unacked"]
                       rejected == IF verdict = "reject"
                                   THEN [delivered EXCEPT ![m] = "dropped"]
                                   ELSE delivered
                       closed   == Requeued(rejected, Tail(jobs_queue), m)
                   IN  /\ msg_state' = closed.st
                       /\ jobs_queue' = closed.q
                /\ conn' = "closed"
                /\ timer' = 0
                /\ IF on_exception("Exception") = "raise"
                   THEN pc' = "terminated" /\ UNCHANGED last_log
                   ELSE /\ pc' = "sleeping"
                        /\ last_log' = "warning: RabbitMQ consumer error, retrying"
                /\ UNCHANGED <<ConsumerIdle, cancel_requested, lifespan_pc, broker_up,
                               failures, bodies, results_queue, http_vars>>
           ELSE /\ deliveries' = deliveries + 1
                /\ jobs_queue' = Tail(jobs_queue)
                /\ msg_state' = [msg_state EXCEPT ![m] = "unacked"]
                /\ cur' = m
                /\ job' = [url_id |-> parsed.url_id, original_url |-> parsed.original_url]
                /\ pc' = "fetching"
                /\ UNCHANGED <<conn, timer, meta_result, fetch_outcome, last_log,
                               cancel_requested, lifespan_pc, broker_up, failures,
                               bodies, results_queue, http_vars>>

\* the iterator raised: the connection or the channel was lost (35)
waiting_error ==
    /\ pc = "waiting" /\ ~cancel_requested /\ conn = "lost"
    /\ raise("Exception")

\* connect_robust: the library restores a lost connection by itself once the
\* broker is reachable again; the code sees nothing
robust_reconnect ==
    /\ pc \in {"waiting", "fetching", "publishing", "acking"}
    /\ ~cancel_requested /\ conn = "lost" /\ broker_up
    /\ conn' = "open"
    /\ UNCHANGED <<pc, timer, ConsumerIdle, last_log, cancel_requested,
                   lifespan_pc, broker_vars, http_vars>>

\* run_in_executor(None, fetch_preview, original_url) returned (43-52)
fetch_done ==
    /\ pc = "fetching" /\ ~cancel_requested
    /\ \E f \in JobFetches[job.original_url] :
          /\ meta_result' = f.meta
          /\ fetch_outcome' = f.fetch
    /\ pc' = "publishing"
    /\ UNCHANGED <<conn, timer, cur, job, last_log, cancel_requested,
                   lifespan_pc, broker_vars, http_vars>>

\* default_exchange.publish returned; logger.info; message.process() exits
\* normally and awaits the acknowledgement (54-61, 36)
publish_ok_wrong_id ==
    /\ pc = "publishing" /\ ~cancel_requested /\ conn = "open"
    /\ results_queue' = Append(results_queue, result_message("", meta_result, deliveries, cur, fetch_outcome))
    /\ last_log' = "info: Preview result published"
    /\ pc' = "acking"
    /\ UNCHANGED <<conn, timer, ConsumerIdle, cancel_requested, lifespan_pc,
                   broker_up, failures, bodies, msg_state, jobs_queue, deliveries, http_vars>>

publish_ok ==
    /\ pc = "publishing" /\ ~cancel_requested /\ conn = "open"
    /\ results_queue' = Append(results_queue, result_message(job.url_id, meta_result, deliveries, cur, fetch_outcome))
    /\ last_log' = "info: Preview result published"
    /\ pc' = "acking"
    /\ UNCHANGED <<conn, timer, ConsumerIdle, cancel_requested, lifespan_pc,
                   broker_up, failures, bodies, msg_state, jobs_queue, deliveries, http_vars>>

\* publish raised: the connection was lost (54)
publish_error ==
    /\ pc = "publishing" /\ ~cancel_requested /\ conn = "lost"
    /\ raise("Exception")

\* message.ack() went out for a delivery the broker still holds (36)
ack_ok ==
    /\ pc = "acking" /\ ~cancel_requested /\ conn = "open"
    /\ process_exit("none", TRUE) = "ack"
    /\ msg_state[cur] = "unacked"
    /\ msg_state' = [msg_state EXCEPT ![cur] = "acked"]
    /\ pc' = "waiting"
    /\ cur' = 0
    /\ job' = NoJob
    /\ meta_result' = AllNone
    /\ fetch_outcome' = "none"
    /\ UNCHANGED <<conn, timer, last_log, cancel_requested, lifespan_pc,
                   broker_up, failures, bodies, jobs_queue, results_queue, deliveries, http_vars>>

\* message.ack() failed: the connection is lost, or the delivery belongs to
\* a connection that was lost in the meantime (36)
ack_error ==
    /\ pc = "acking" /\ ~cancel_requested
    /\ conn = "lost" \/ msg_state[cur] # "unacked"
    /\ raise("Exception")

\* await asyncio.sleep(retry_interval): a second passes (66)
sleep_tick ==
    /\ pc = "sleeping" /\ ~cancel_requested
    /\ timer < RetryInterval
    /\ timer' = timer + 1
    /\ UNCHANGED <<pc, conn, ConsumerIdle, last_log, cancel_requested,
                   lifespan_pc, broker_vars, http_vars>>

\* the sleep is over: while True, try, await connect_robust again (66, 24-26)
wake_up_at_once ==
    /\ pc = "sleeping" /\ ~cancel_requested
    /\ pc' = "connecting"
    /\ timer' = 0
    /\ conn' = "none"
    /\ UNCHANGED <<ConsumerIdle, last_log, cancel_requested, lifespan_pc,
                   broker_vars, http_vars>>

wake_up ==
    /\ pc = "sleeping" /\ ~cancel_requested
    /\ timer = RetryInterval
    /\ pc' = "connecting"
    /\ timer' = 0
    /\ conn' = "none"
    /\ UNCHANGED <<ConsumerIdle, last_log, cancel_requested, lifespan_pc,
                   broker_vars, http_vars>>

\* task.cancel() takes effect: CancelledError is raised at the await the
\* task is suspended in (62-63).  A task that never ran is just cancelled.
\* An acknowledgement that was being sent may or may not have gone out.
cancelled ==
    /\ cancel_requested
    /\ pc # "terminated"
    /\ IF pc \in {"created", "sleeping"}
       THEN /\ pc' = IF pc = "created" \/ on_exception("CancelledError") = "raise"
                     THEN "terminated" ELSE "sleeping"
            /\ cancel_requested' = FALSE
            /\ UNCHANGED <<conn, timer, ConsumerIdle, last_log, lifespan_pc, broker_vars, http_vars>>
       ELSE \/ raise("CancelledError")
            \/ /\ pc = "acking" /\ conn = "open" /\ msg_state[cur] = "unacked"
               /\ msg_state' = [msg_state EXCEPT ![cur] = "acked"]
               /\ pc' = IF on_exception("CancelledError") = "raise"
                        THEN "terminated" ELSE "sleeping"
               /\ conn' = "closed"
               /\ cur' = 0
               /\ job' = NoJob
               /\ meta_result' = AllNone
               /\ fetch_outcome' = "none"
               /\ timer' = 0
                  /\ cancel_requested' = FALSE
               /\ UNCHANGED <<last_log, lifespan_pc, broker_up, failures, bodies,
                              jobs_queue, results_queue, deliveries, http_vars>>

consume_preview_jobs ==
    \/ task_start
    \/ connect_ok
    \/ connect_error
    \/ declare_ok
    \/ declare_error
    \/ next_message
    \/ waiting_error
    \/ robust_reconnect
    \/ fetch_done
    \/ publish_ok
    \/ publish_error
    \/ ack_ok
    \/ ack_error
    \/ sleep_tick
    \/ wake_up
    \/ cancelled

(***************************************************************************)
(* main.py 69-77: lifespan.  The task is created at startup; at shutdown   *)
(* it is cancelled and awaited.                                            *)
(***************************************************************************)
lifespan_shutdown ==
    /\ lifespan_pc = "running"
    /\ lifespan_pc' = "cancelling"
    /\ cancel_requested' = (pc # "terminated")
    /\ UNCHANGED <<pc, conn, timer, ConsumerIdle, last_log, broker_vars, http_vars>>

lifespan_exit ==
    /\ lifespan_pc = "cancelling"
    /\ pc = "terminated"
    /\ lifespan_pc' = "exited"
    /\ UNCHANGED <<pc, conn, timer, ConsumerIdle, last_log,
                   cancel_requested, broker_vars, http_vars>>

lifespan == lifespan_shutdown \/ lifespan_exit

(***************************************************************************)
(* The broker and the producers of jobs: the environment of the consumer.  *)
(***************************************************************************)
\* another service publishes a job to preview_jobs
publish_job ==
    /\ broker_up
    /\ Len(bodies) < MaxJobs
    /\ \E b \in BodySamples : bodies' = Append(bodies, b)
    /\ msg_state' = Append(msg_state, "ready")
    /\ jobs_queue' = Append(jobs_queue, Len(bodies) + 1)
    /\ UNCHANGED <<task_vars, broker_up, failures, results_queue, deliveries, http_vars>>

\* the broker becomes unreachable: an open connection is lost, and what was
\* delivered on it and not acknowledged goes back to the queue
broker_down ==
    /\ broker_up
    /\ failures < MaxFailures
    /\ broker_up' = FALSE
    /\ failures' = failures + 1
    /\ conn' = IF conn = "open" THEN "lost" ELSE conn
    /\ LET back == Requeued(msg_state, jobs_queue, cur)
       IN  msg_state' = back.st /\ jobs_queue' = back.q
    /\ UNCHANGED <<pc, timer, ConsumerIdle, last_log, cancel_requested,
                   lifespan_pc, bodies, results_queue, deliveries, http_vars>>

broker_back ==
    /\ ~broker_up
    /\ broker_up' = TRUE
    /\ UNCHANGED <<task_vars, failures, bodies, msg_state, jobs_queue,
                   results_queue, deliveries, http_vars>>

Broker == publish_job \/ broker_down \/ broker_back

(***************************************************************************)
(* Specifications.                                                         *)
(***************************************************************************)
HttpIdle ==
    /\ req_url = <<>>
    /\ web_outcome = "invalid_url"
    /\ web_page = Parsed(<<>>)
    /\ http_pc = "responded"
    /\ resp = NoResponse
    /\ fetched = FALSE

ConsumerInit ==
    /\ pc = "created"
    /\ conn = "none"
    /\ timer = 0
    /\ cur = 0
    /\ job = NoJob
    /\ meta_result = AllNone
    /\ fetch_outcome = "none"
    /\ last_log = ""
    /\ cancel_requested = FALSE
    /\ lifespan_pc = "running"
    /\ broker_up \in BOOLEAN
    /\ failures = 0
    /\ bodies = <<>>
    /\ msg_state = <<>>
    /\ jobs_queue = <<>>
    /\ results_queue = <<>>
    /\ deliveries = 0

\* the consumer task, its owner and the broker
Init == HttpIdle /\ ConsumerInit

Next ==
    \/ task_start
    \/ connect_ok
    \/ connect_error
    \/ declare_ok
    \/ declare_error
    \/ next_message
    \/ waiting_error
    \/ robust_reconnect
    \/ fetch_done
    \/ publish_ok
    \/ publish_error
    \/ ack_ok
    \/ ack_error
    \/ sleep_tick
    \/ wake_up
    \/ cancelled
    \/ lifespan_shutdown
    \/ lifespan_exit
    \/ publish_job
    \/ broker_down
    \/ broker_back

Spec == Init /\ [][Next]_vars

\* The event loop runs a task that can run, a timer fires, and the library
\* reconnects: the steps of the consumer and of lifespan_exit are weakly
\* fair.  Nothing is assumed of the broker, the producers or the shutdown.
LiveNext ==
    \/ task_start
    \/ connect_ok
    \/ connect_error
    \/ declare_ok
    \/ declare_error
    \/ next_message
    \/ waiting_error
    \/ robust_reconnect
    \/ fetch_done
    \/ publish_ok
    \/ publish_error
    \/ ack_ok
    \/ ack_error
    \/ sleep_tick
    \/ wake_up
    \/ cancelled
    \/ lifespan_shutdown
    \/ lifespan_exit
    \/ (Len(bodies) < MaxLiveJobs /\ publish_job)
    \/ broker_down
    \/ broker_back

LiveSpec ==
    /\ Init
    /\ [][LiveNext]_vars
    /\ WF_vars(consume_preview_jobs)
    /\ WF_vars(lifespan_exit)

\* one GET /preview request
HttpInit ==
    /\ req_url \in UrlSamples
    /\ web_outcome \in RequestOutcomes(req_url)
    /\ web_page \in (IF web_outcome = "ok" THEN PageSamples ELSE {Parsed(<<>>)})
    /\ http_pc = "received"
    /\ resp = NoResponse
    /\ fetched = FALSE
    /\ ConsumerInit
    /\ broker_up = TRUE

HttpNext == get_preview /\ UNCHANGED <<task_vars, broker_vars>>

HttpSpec == HttpInit /\ [][HttpNext]_vars

(***************************************************************************)
(* Properties of the job consumer.                                         *)
(***************************************************************************)
Warning == "warning: RabbitMQ consumer error, retrying"

\* Connecting and Consuming, by the await the task is suspended in
ConnectingPcs == {"connecting", "declaring"}

ConsumingPcs == {"waiting", "fetching", "publishing", "acking"}

JobIds == 1..Len(bodies)

WellFormed(m) == ~parse_job(bodies[m]).raised

ResultsFor(m) == { i \in 1..Len(results_queue) : results_queue[i].msg = m }

C4_CancellationEndsTheLoop ==
    /\ [][ lifespan_pc # "running" => (pc' = pc \/ pc' = "terminated") ]_vars
    /\ [](lifespan_pc = "exited" => pc = "terminated")
    /\ (lifespan_pc = "cancelling") ~> (lifespan_pc = "exited")

\* C4 witness: shutdown completed after cancelling the task while it was
\* processing a job (the job it held was rejected on the way out).
C4_Witness ==
    /\ lifespan_pc = "exited"
    /\ pc = "terminated"
    /\ \E m \in JobIds : WellFormed(m) /\ msg_state[m] = "dropped"

\* C1: a job message is acknowledged only when a result was published for
\* it, and no well-formed job leaves the broker without one: as long as no
\* result was published for it, it is still ready in preview_jobs or
\* delivered and unacknowledged (so a crash, a lost connection or a
\* cancellation leads to its redelivery).
C1_AckAfterPublishAndNoJobLost ==
    \A m \in JobIds :
        /\ msg_state[m] = "acked" => ResultsFor(m) # {}
        /\ (WellFormed(m) /\ ResultsFor(m) = {}) => msg_state[m] \in {"ready", "unacked"}

Fields(r) == <<r.title, r.description, r.image, r.favicon>>

\* C3: no delivery has two results; every result is persistent, goes to
\* preview_results, has a fetchedAt, the urlId of its job and four fields
\* that fetch_preview can return for the job's originalUrl, all None when the
\* fetch failed or the originalUrl is not usable; a delivery whose processing
\* reached the acknowledgement has exactly one result, carrying what
\* fetch_preview returned; an acknowledged job has a result.
C3_OneResultPerProcessedDelivery ==
    /\ \A i, j \in 1..Len(results_queue) :
          results_queue[i].delivery = results_queue[j].delivery => i = j
    /\ \A i \in 1..Len(results_queue) :
          LET r == results_queue[i]
              b == bodies[r.msg]
          IN  /\ r.persistent /\ r.routing_key = "preview_results" /\ r.fetchedAt
              /\ b.has_urlId /\ r.urlId = b.urlId
              /\ \E f \in JobFetches[b.originalUrl] :
                    f.fetch = r.fetch /\ Fields(f.meta) = Fields(r)
              /\ (r.fetch = "failed" \/ ~Usable(b.originalUrl))
                    => Fields(r) = <<None, None, None, None>>
    /\ pc = "acking" =>
          /\ Cardinality({ i \in 1..Len(results_queue) :
                             results_queue[i].delivery = deliveries }) = 1
          /\ LET r == results_queue[Len(results_queue)]
             IN  /\ r.delivery = deliveries /\ r.msg = cur
                 /\ r.urlId = job.url_id
                 /\ Fields(r) = Fields(meta_result)
    /\ \A m \in JobIds : msg_state[m] = "acked" => ResultsFor(m) # {}

\* C3 witness: two jobs were processed and acknowledged, one with metadata
\* found, one whose originalUrl is not a usable URL and whose fields are None.
C3_Witness ==
    \E i, j \in 1..Len(results_queue) :
        /\ results_queue[i].title # None
        /\ msg_state[results_queue[i].msg] = "acked"
        /\ ~Usable(bodies[results_queue[j].msg].originalUrl)
        /\ Fields(results_queue[j]) = <<None, None, None, None>>
        /\ msg_state[results_queue[j].msg] = "acked"

BusyPcs == {"fetching", "publishing", "acking"}

C10_ProcessingErrorHandledAsTransportFailure ==
    /\ [][ (pc = "waiting" /\ deliveries' = deliveries + 1
               /\ ~WellFormed(Head(jobs_queue)))
           => /\ results_queue' = results_queue
              /\ msg_state'[Head(jobs_queue)] # "acked"
              /\ pc' = "sleeping" /\ conn' = "closed" /\ timer' = 0
              /\ last_log' = Warning ]_vars
    /\ [][ (pc = "sleeping" /\ pc' # "sleeping")
           => \/ (pc' = "connecting" /\ timer = RetryInterval)
              \/ (pc' = "terminated" /\ lifespan_pc = "cancelling") ]_vars

\* C10 witness: with the broker reachable all along, the consumer sleeps
\* before a retry after a message that did not parse.
C10_Witness ==
    /\ pc = "sleeping" /\ conn = "closed" /\ failures = 0 /\ broker_up
    /\ deliveries > 0 /\ results_queue = <<>>
    /\ \E m \in JobIds : ~WellFormed(m) /\ msg_state[m] = "dropped"

FetchFailed == web_outcome # "ok" \/ web_page.parse_error

PageFetched ==
    /\ http_pc = "responded" /\ resp.status = 200
    /\ web_outcome = "ok" /\ ~web_page.parse_error

\* C6: whatever the URL, when the request fails (no connection, timeout,
\* error status, a URL requests refuses) or the markup cannot be parsed,
\* fetch_preview raises nothing and returns the four fields None, favicon
\* included; GET /preview for a URL the validator accepts then answers 200
\* with the url and the four fields null.
C6_FailureYieldsAllNone ==
    /\ FetchFailed => fetch_preview(req_url, web_outcome, web_page) = AllNone
    /\ (http_pc = "responded" /\ is_valid_url(req_url) /\ FetchFailed)
          => /\ fetched /\ resp.status = 200 /\ resp.url = req_url
             /\ Fields(resp) = <<None, None, None, None>>

\* C6 witness: a request for a valid URL whose fetch timed out was answered.
C6_Witness ==
    /\ http_pc = "responded" /\ fetched /\ web_outcome = "timeout"
    /\ resp.status = 200 /\ resp.favicon = None

\* C7: a request is answered 400 "Invalid URL", with no fetch made, exactly
\* when the validator finds the url invalid, and the validator finds it
\* valid exactly when it parses, its scheme is http or https and its host
\* is not empty.
C7_ValidIffHttpSchemeAndHost ==
    http_pc = "responded" =>
        /\ resp.status = 400 <=> ~is_valid_url(req_url)
        /\ resp.status = 400 => (~fetched /\ resp.detail = InvalidUrlDetail)
        /\ is_valid_url(req_url)
              <=> LET parsed == urlparse(req_url)
                  IN  /\ ~parsed.raised
                      /\ parsed.scheme \in {http, https}
                      /\ Hostname(parsed.netloc) # <<>>

IconLinks(soup) ==
    { i \in 1..Len(soup) :
        /\ soup[i].tag = "link"
        /\ \E k \in 1..Len(soup[i].rel) : Contains(soup[i].rel[k], icon) }

FirstIconLink(soup) ==
    CHOOSE i \in IconLinks(soup) : \A j \in IconLinks(soup) : i <= j

Origin(u) == urlparse(u).scheme \o ColonSlashSlash \o urlparse(u).netloc

Resolved(u, href) ==
    IF StartsWith(href, http) THEN href
    ELSE IF StartsWith(href, Slash) THEN Origin(u) \o href
    ELSE Origin(u) \o Slash \o href

\* C8 as claimed: the first link whose rel contains "icon" decides: its href
\* verbatim when it begins with "http", otherwise resolved against the
\* source URL (an href that is not there resolves as the empty reference);
\* the default /favicon.ico only when there is no such link.
C8_FirstIconLinkDecides ==
    PageFetched =>
        LET soup == web_page.soup
        IN  resp.favicon =
              IF IconLinks(soup) = {}
              THEN Str(Origin(req_url) \o FaviconIco)
              ELSE LET href == soup[FirstIconLink(soup)].href
                   IN  Str(Resolved(req_url, IF href = None THEN <<>> ELSE href.v))

\* C8 as amended: the default /favicon.ico is the result when there is no
\* link whose rel contains "icon" and also when the first such link has no
\* href or an empty one; otherwise the first such link decides as claimed;
\* the favicon of a fetched page is never absent nor empty.
C8_FirstIconLinkWithHrefDecidesElseDefault ==
    PageFetched =>
        LET soup == web_page.soup
        IN  /\ resp.favicon =
                 IF IconLinks(soup) = {} \/ ~Truthy(soup[FirstIconLink(soup)].href)
                 THEN Str(Origin(req_url) \o FaviconIco)
                 ELSE Str(Resolved(req_url, soup[FirstIconLink(soup)].href.v))
            /\ Truthy(resp.favicon)

\* C8 witness: the first icon link of a fetched page has no href, a later
\* one has, and the answer carries the default favicon.
C8_Witness ==
    /\ PageFetched
    /\ IconLinks(web_page.soup) # {}
    /\ web_page.soup[FirstIconLink(web_page.soup)].href = None
    /\ \E i \in IconLinks(web_page.soup) : Truthy(web_page.soup[i].href)
    /\ resp.favicon = Str(Origin(req_url) \o FaviconIco)

\* the content of the first meta tag with that attribute value, when the tag
\* is there and its content is not empty
Source(soup, attr, value) ==
    LET S == { i \in 1..Len(soup) : soup[i].tag = "meta" /\ soup[i][attr] = value }
    IN  IF S = {} THEN None
        ELSE LET e == soup[CHOOSE i \in S : \A j \in S : i <= j]
             IN  IF e.content = None \/ e.content.v = <<>> THEN None ELSE e.content

\* the trimmed text of the first title element, when it is not empty
TitleText(soup) ==
    LET S == { i \in 1..Len(soup) : soup[i].tag = "title" }
    IN  IF S = {} THEN None
        ELSE LET e == soup[CHOOSE i \in S : \A j \in S : i <= j]
             IN  IF e.string = None \/ Strip(e.string.v) = <<>>
                 THEN None
                 ELSE Str(Strip(e.string.v))

FirstPresent(sources) ==
    LET S == { i \in 1..Len(sources) : sources[i] # None }
    IN  IF S = {} THEN None ELSE sources[CHOOSE i \in S : \A j \in S : i <= j]

\* C9: title, description and image of a fetched page are each the first
\* present source in the fixed order, a source with missing or empty
\* content counting as not present, and None (never the empty string) when
\* no source is present.
C9_FirstPresentSourceElseNone ==
    PageFetched =>
        LET soup == web_page.soup
        IN  /\ resp.title = FirstPresent(<<Source(soup, "property", "og:title"),
                                           Source(soup, "name", "twitter:title"),
                                           TitleText(soup)>>)
            /\ resp.description =
                  FirstPresent(<<Source(soup, "property", "og:description"),
                                 Source(soup, "name", "twitter:description"),
                                 Source(soup, "name", "description")>>)
            /\ resp.image = FirstPresent(<<Source(soup, "property", "og:image"),
                                           Source(soup, "name", "twitter:image")>>)
            /\ \A f \in {resp.title, resp.description, resp.image} :
                  f = None \/ f.v # <<>>
====
